---- MODULE Spec2Model ----
(***************************************************************************)
(* Model of WebSearchClient (src/src/lib/search.ts): the cache-aside web   *)
(* search with a Primary (DuckDuckGo) and a Fallback (Google) provider and *)
(* the prisma searchCache table as persistent store.                       *)
(*                                                                         *)
(* Text is modelled as a sequence of characters (queries, titles,          *)
(* snippets) and an href as a sequence of lexical tokens, so that          *)
(* toLowerCase, trim, startsWith, the redirect regexp and                  *)
(* decodeURIComponent are computed, not assumed.                           *)
(***************************************************************************)
EXTENDS Integers, Sequences, FiniteSets, TLC

\* ------------------------------------------------------------- bounds
MaxCalls == 2
MaxTicks == 2
TicksPerExpiry == 2
MaxResultsArg == 1
MaxBlocks == 3

\* ------------------------------------------------------------- text
Lower(ch) ==
    IF ch = "R" THEN "r" ELSE IF ch = "Q" THEN "q" ELSE ch

\* String.prototype.toLowerCase
ToLowerCase(s) ==
    [i \in DOMAIN s |-> Lower(s[i])]

IsSpace(ch) ==
    ch = " "

RECURSIVE TrimStart(_)
TrimStart(s) ==
    IF s # <<>> /\ IsSpace(Head(s)) THEN TrimStart(Tail(s)) ELSE s

RECURSIVE TrimEnd(_)
TrimEnd(s) ==
    IF s # <<>> /\ IsSpace(s[Len(s)]) THEN TrimEnd(SubSeq(s, 1, Len(s) - 1)) ELSE s

\* String.prototype.trim
Trim(s) ==
    TrimEnd(TrimStart(s))

\* String.prototype.startsWith on a tokenised href
StartsWith(href, tok) ==
    href # <<>> /\ Head(href) = tok

\* ------------------------------------------------------------- hrefs
AbsHref == <<"https:", "//", "e.com/x">>
ProtoRelHref == <<"//", "e.com/x">>
RedirectHref == <<"/url?q=", "https%3A%2F%2Fe.com%2Fx", "&sa=U">>
BadRedirectHref == <<"/url?q=", "%E0%A4%A">>
EmptyRedirectHref == <<"/url?q=", "&sa=U">>
RelHref == <<"/rel">>

\* decodeURIComponent: a well-formed escape sequence decodes, a malformed
\* one raises URIError, anything else is returned as it is.
DecodeURIComponent(tok) ==
    IF tok = "https%3A%2F%2Fe.com%2Fx" THEN [ok |-> TRUE, val |-> AbsHref]
    ELSE IF tok = "%E0%A4%A" THEN [ok |-> FALSE, val |-> <<>>]
    ELSE [ok |-> TRUE, val |-> <<tok>>]

\* href.match(/\/url\?q=([^&]+)/): the capture is the text after "/url?q="
\* up to the first "&"; no match when that text is empty.
UrlMatch(href) ==
    IF Len(href) >= 2 /\ href[1] = "/url?q=" /\ href[2] # "&sa=U"
    THEN <<href[2]>>
    ELSE <<>>

\* url.startsWith('//') ? `https:${url}` : url
DuckDuckGoUrl(url) ==
    IF StartsWith(url, "//") THEN <<"https:">> \o url ELSE url

\* cleanUrl of the Google parser; ok = FALSE when decodeURIComponent throws
GoogleCleanUrl(href) ==
    IF StartsWith(href, "/url?q=") /\ UrlMatch(href) # <<>>
    THEN DecodeURIComponent(UrlMatch(href)[1])
    ELSE [ok |-> TRUE, val |-> href]

\* ------------------------------------------------------------- pages
\* A result block of a provider's page: the text of its title element, the
\* href attribute of its link and the text of its snippet element.
Block(t, h, s) ==
    [title |-> t, href |-> h, snippet |-> s]

Blocks ==
    { Block(<<"a">>, AbsHref, <<"s">>),
      Block(<<"b">>, ProtoRelHref, <<"s">>),
      Block(<<"c">>, RedirectHref, <<"s">>),
      Block(<<"d">>, AbsHref, <<>>),
      Block(<<" ">>, AbsHref, <<"s">>),
      Block(<<"e">>, <<>>, <<"s">>),
      Block(<<"f">>, RelHref, <<"s">>),
      Block(<<"g">>, BadRedirectHref, <<"s">>),
      Block(<<"h">>, EmptyRedirectHref, <<" ", "s">>) }

RECURSIVE SeqsUpTo(_, _)
SeqsUpTo(S, n) ==
    IF n = 0 THEN { <<>> }
    ELSE LET shorter == SeqsUpTo(S, n - 1)
         IN  shorter \cup { Append(p, b) : p \in shorter, b \in S }

Pages ==
    SeqsUpTo(Blocks, MaxBlocks)

\* title && url && snippet, on the trimmed texts and the raw href
Qualifies(b) ==
    Trim(b.title) # <<>> /\ b.href # <<>> /\ Trim(b.snippet) # <<>>

\* $('.result').each(...) of searchDuckDuckGo: the callback returns false
\* (stops the iteration) at the first index >= maxResults.
RECURSIVE DuckDuckGoEach(_, _, _, _)
DuckDuckGoEach(page, index, maxResults, acc) ==
    IF index >= Len(page) \/ index >= maxResults THEN acc
    ELSE LET b == page[index + 1]
         IN  DuckDuckGoEach(page, index + 1, maxResults,
                 IF Qualifies(b)
                 THEN Append(acc, [title |-> Trim(b.title),
                                   url |-> DuckDuckGoUrl(b.href),
                                   snippet |-> Trim(b.snippet),
                                   source |-> "DuckDuckGo"])
                 ELSE acc)

ParseDuckDuckGo(page, maxResults) ==
    DuckDuckGoEach(page, 0, maxResults, <<>>)

\* $('div.g').each(...) of fallbackSearch; ok = FALSE when the callback
\* throws (decodeURIComponent), which aborts the whole iteration.
RECURSIVE GoogleEach(_, _, _, _)
GoogleEach(page, index, maxResults, acc) ==
    IF index >= Len(page) \/ index >= maxResults THEN [ok |-> TRUE, val |-> acc]
    ELSE LET b == page[index + 1]
             clean == GoogleCleanUrl(b.href)
         IN  IF ~Qualifies(b)
             THEN GoogleEach(page, index + 1, maxResults, acc)
             ELSE IF ~clean.ok THEN [ok |-> FALSE, val |-> <<>>]
             ELSE GoogleEach(page, index + 1, maxResults,
                      Append(acc, [title |-> Trim(b.title),
                                   url |-> clean.val,
                                   snippet |-> Trim(b.snippet),
                                   source |-> "Google"]))

ParseGoogle(page, maxResults) ==
    GoogleEach(page, 0, maxResults, <<>>)

\* ------------------------------------------------------------- inputs
Calls == 1..MaxCalls

Queries == { <<"R">>, <<"r">>, <<" ", "r">> }

\* Every text that can occur as a value of the query column.
KeySpace ==
    Queries \cup { ToLowerCase(q) : q \in Queries }
            \cup { Trim(ToLowerCase(q)) : q \in Queries }

\* The pages the providers serve to search calls.
ServedPages ==
    { <<>>,
      << Block(<<"c">>, RedirectHref, <<"s">>), Block(<<"a">>, AbsHref, <<"s">>) >>,
      << Block(<<"g">>, BadRedirectHref, <<"s">>) >> }

\* What awaiting fetch(...) and response.text() can give: a rejection
\* (transport error), a response that is not ok, or an ok response.
Responses ==
    { [kind |-> "throw", page |-> <<>>],
      [kind |-> "notOk", page |-> << Block(<<"a">>, AbsHref, <<"s">>) >>] }
    \cup { [kind |-> "ok", page |-> p] : p \in ServedPages }

\* ------------------------------------------------------------- client
\* private cacheExpiry, in milliseconds
cacheExpiry == 24 * 60 * 60 * 1000

TickMs == cacheExpiry \div TicksPerExpiry

\* where: { query: query.toLowerCase() } of findUnique
ReadKey(q) == ToLowerCase(q)

\* where / create: { query: query.toLowerCase() } of upsert
WriteKeyRaw(q) == q
WriteKey(q) == ToLowerCase(q)

\* cached.expiresAt > new Date()
IsFreshInclusive(row, t) == row.expiresAt >= t
IsFresh(row, t) == row.expiresAt > t

\* new Date(Date.now() + this.cacheExpiry)
ExpiresAt(t) == t + cacheExpiry

\* The try body of searchDuckDuckGo: ok = FALSE when it throws.
DuckDuckGoBody(resp, maxResults) ==
    IF resp.kind = "throw" THEN [ok |-> FALSE, val |-> <<>>]
    ELSE IF resp.kind = "notOk" THEN [ok |-> FALSE, val |-> <<>>]
    ELSE [ok |-> TRUE, val |-> ParseDuckDuckGo(resp.page, maxResults)]

\* fallbackSearch: the try body and its catch; failed tells whether the
\* provider gave no usable answer (rejection, not ok, exception in parsing).
FallbackSearchNoStatusCheck(resp, maxResults) ==
    IF resp.kind = "throw" THEN [val |-> <<>>, failed |-> TRUE]
    ELSE LET parsed == ParseGoogle(resp.page, maxResults)
         IN  IF parsed.ok THEN [val |-> parsed.val, failed |-> resp.kind # "ok"]
             ELSE [val |-> <<>>, failed |-> TRUE]
FallbackSearch(resp, maxResults) ==
    IF resp.kind = "throw" THEN [val |-> <<>>, failed |-> TRUE]
    ELSE IF resp.kind = "notOk" THEN [val |-> <<>>, failed |-> TRUE]
    ELSE LET parsed == ParseGoogle(resp.page, maxResults)
         IN  IF parsed.ok THEN [val |-> parsed.val, failed |-> FALSE]
             ELSE [val |-> <<>>, failed |-> TRUE]

\* The arguments of this.fallbackSearch(query, maxResults) in the catch
\* block of searchDuckDuckGo.
FallbackArgsDefault(q, maxResults) == [query |-> q, maxResults |-> 5]
FallbackArgs(q, maxResults) == [query |-> q, maxResults |-> maxResults]

\* try { ... } catch (error) { return [] } of search
SearchCatch(r) ==
    IF r.ok THEN r ELSE [ok |-> TRUE, val |-> <<>>]

\* ------------------------------------------------------------- state
VARIABLES
    now,        \* the clock (Date.now()), in milliseconds
    cache,      \* the searchCache table: query -> row
    nextId,     \* the id the next created row gets
    lastMod,    \* the last change of the table: who made it, and what
    pc,         \* where each search call is
    query,      \* argument of each call
    maxResults, \* argument of each call
    cached,     \* local of getCachedResults: the row findUnique found
    results,    \* local of search: what searchDuckDuckGo returned
    expiresAt,  \* local of cacheResults
    ret,        \* what the call settled with: [ok, val]
    hist,       \* what each call did (for stating the properties)
    xpc, xpage, xmax, xout   \* the extraction of one page on its own

searchVars ==
    <<now, cache, nextId, lastMod, pc, query, maxResults, cached, results,
      expiresAt, ret, hist>>
extractVars == <<xpc, xpage, xmax, xout>>
vars == <<searchVars, extractVars>>

NoRow == [id |-> 0, results |-> <<>>, expiresAt |-> 0]

NoMod == [by |-> 0, op |-> "none", at |-> 0]

\* What a call did. readFail: findUnique or delete rejected; writeFail:
\* upsert rejected; staleId: the id of the expired row the table held for
\* the key when the call read (0: none); hit: the call returned the row it
\* read; hitExpired: the row it returned had expired; pred: the earlier call whose
\* upsert this call's read directly followed, within the period (0: none);
\* requests: HTTP requests issued; pFail: DuckDuckGo failed; fb: how Google
\* ended; fbArgs: what fallbackSearch was called with; fbVal: what it
\* returned; wrote: its upsert was applied.
NoHist ==
    [readFail |-> FALSE, writeFail |-> FALSE, staleId |-> 0, hit |-> FALSE,
     hitExpired |-> FALSE, pred |-> 0, requests |-> 0, pFail |-> FALSE,
     fb |-> "none", fbArgs |-> [query |-> <<>>, maxResults |-> 0],
     fbVal |-> <<>>, wrote |-> FALSE]

\* A row an earlier search left in the table: written half a period ago.
OldRow ==
    [id |-> 1,
     results |-> ParseDuckDuckGo(<< Block(<<"a">>, AbsHref, <<"s">>) >>, 1),
     expiresAt |-> TickMs]

SearchInit ==
    /\ now = 0
    /\ \/ cache = [k \in KeySpace |-> NoRow]
       \/ cache = [k \in KeySpace |-> IF k = <<"r">> THEN OldRow ELSE NoRow]
    /\ nextId = 2
    /\ lastMod = NoMod
    /\ pc = [c \in Calls |-> "idle"]
    /\ query = [c \in Calls |-> <<>>]
    /\ maxResults = [c \in Calls |-> 0]
    /\ cached = [c \in Calls |-> NoRow]
    /\ results = [c \in Calls |-> <<>>]
    /\ expiresAt = [c \in Calls |-> 0]
    /\ ret = [c \in Calls |-> [ok |-> TRUE, val |-> <<>>]]
    /\ hist = [c \in Calls |-> NoHist]

ExtractIdle ==
    /\ xpc = "off"
    /\ xpage = <<>>
    /\ xmax = 0
    /\ xout = [ok |-> TRUE, val |-> <<>>]

Init ==
    SearchInit /\ ExtractIdle

\* Two queries that are equal or differ only in letter case.
EqualIgnoringCase(q1, q2) ==
    /\ Len(q1) = Len(q2)
    /\ \A i \in DOMAIN q1 :
          \/ q1[i] = q2[i]
          \/ {q1[i], q2[i]} \in { {"r", "R"}, {"q", "Q"} }

\* The call whose applied upsert is the last change of the table, when the
\* call is done, its query equals q up to letter case and less than the
\* period has passed since it took the time of its write; 0 otherwise.
Predecessor(q) ==
    IF /\ lastMod.op = "upsert"
       /\ pc[lastMod.by] = "done"
       /\ EqualIgnoringCase(query[lastMod.by], q)
       /\ now < lastMod.at + cacheExpiry
    THEN lastMod.by
    ELSE 0

\* ------------------------------------------------------------- actions
\* search(query, maxResults) is called: it runs up to the await of
\* prisma.searchCache.findUnique in getCachedResults. (Calls are numbered in
\* the order they are made.)
Start(c, q, n) ==
    /\ pc[c] = "idle"
    /\ \A d \in Calls : d < c => pc[d] # "idle"
    /\ pc' = [pc EXCEPT ![c] = "findUnique"]
    /\ query' = [query EXCEPT ![c] = q]
    /\ maxResults' = [maxResults EXCEPT ![c] = n]
    /\ UNCHANGED <<now, cache, nextId, lastMod, cached, results, expiresAt, ret,
                   hist, extractVars>>

\* The call returns: its locals are gone.
Return(c, r) ==
    /\ pc' = [pc EXCEPT ![c] = "done"]
    /\ ret' = [ret EXCEPT ![c] = SearchCatch(r)]
    /\ cached' = [cached EXCEPT ![c] = NoRow]
    /\ results' = [results EXCEPT ![c] = <<>>]
    /\ expiresAt' = [expiresAt EXCEPT ![c] = 0]

\* findUnique settles. A rejection is caught by getCachedResults (null); a
\* fresh row is returned to the caller of search; an expired row goes to
\* delete; no row leads to the request to DuckDuckGo.
FindUnique(c, storeOk) ==
    /\ pc[c] = "findUnique"
    /\ LET row == cache[ReadKey(query[c])]
           h == [hist[c] EXCEPT !.pred = IF storeOk THEN Predecessor(query[c]) ELSE 0,
                                !.readFail = ~storeOk,
                                !.staleId = IF row # NoRow /\ now >= row.expiresAt
                                            THEN row.id ELSE 0]
       IN  IF ~storeOk
           THEN /\ pc' = [pc EXCEPT ![c] = "duckduckgo"]
                /\ hist' = [hist EXCEPT ![c] = [h EXCEPT !.requests = 1]]
                /\ UNCHANGED <<cached, results, expiresAt, ret>>
           ELSE IF row # NoRow /\ IsFresh(row, now)
           THEN /\ Return(c, [ok |-> TRUE, val |-> row.results])
                /\ hist' = [hist EXCEPT ![c] =
                               [h EXCEPT !.hit = TRUE,
                                         !.hitExpired = (now >= row.expiresAt)]]
           ELSE IF row # NoRow
           THEN /\ pc' = [pc EXCEPT ![c] = "delete"]
                /\ cached' = [cached EXCEPT ![c] = row]
                /\ hist' = [hist EXCEPT ![c] = h]
                /\ UNCHANGED <<results, expiresAt, ret>>
           ELSE /\ pc' = [pc EXCEPT ![c] = "duckduckgo"]
                /\ hist' = [hist EXCEPT ![c] = [h EXCEPT !.requests = 1]]
                /\ UNCHANGED <<cached, results, expiresAt, ret>>
    /\ UNCHANGED <<now, cache, nextId, lastMod, query, maxResults, extractVars>>

\* delete({ where: { id: cached.id } }) settles: the row with that id is
\* removed; it rejects when there is no such row or the store fails, which
\* getCachedResults catches. Either way the request to DuckDuckGo follows.
Delete(c, storeOk) ==
    /\ pc[c] = "delete"
    /\ LET found == { k \in KeySpace : cache[k] # NoRow /\ cache[k].id = cached[c].id }
       IN  IF storeOk /\ found # {}
           THEN /\ cache' = [k \in KeySpace |-> IF k \in found THEN NoRow ELSE cache[k]]
                /\ lastMod' = [by |-> c, op |-> "delete", at |-> now]
                /\ hist' = [hist EXCEPT ![c].requests = 1]
           ELSE /\ hist' = [hist EXCEPT ![c].requests = 1,
                                        ![c].readFail = ~storeOk]
                /\ UNCHANGED <<cache, lastMod>>
    /\ pc' = [pc EXCEPT ![c] = "duckduckgo"]
    /\ UNCHANGED <<now, nextId, query, maxResults, cached, results, expiresAt,
                   ret, extractVars>>

\* The request to DuckDuckGo settles. When the try body completes, search
\* goes on to cacheResults, which computes expiresAt and awaits the upsert;
\* when it throws, the catch block issues the request of fallbackSearch.
PrimaryRespond(c, resp) ==
    /\ pc[c] = "duckduckgo"
    /\ LET body == DuckDuckGoBody(resp, maxResults[c])
       IN  IF body.ok
           THEN /\ pc' = [pc EXCEPT ![c] = "upsert"]
                /\ results' = [results EXCEPT ![c] = body.val]
                /\ expiresAt' = [expiresAt EXCEPT ![c] = ExpiresAt(now)]
                /\ UNCHANGED hist
           ELSE /\ pc' = [pc EXCEPT ![c] = "google"]
                /\ hist' = [hist EXCEPT ![c].pFail = TRUE,
                                        ![c].requests = 2,
                                        ![c].fbArgs = FallbackArgs(query[c], maxResults[c])]
                /\ UNCHANGED <<results, expiresAt>>
    /\ UNCHANGED <<now, cache, nextId, lastMod, query, maxResults, cached, ret,
                   extractVars>>

\* The request to Google settles. fallbackSearch always returns a list, so
\* search always goes on to cacheResults.
FallbackRespond(c, resp) ==
    /\ pc[c] = "google"
    /\ LET r == FallbackSearch(resp, hist[c].fbArgs.maxResults)
       IN  /\ results' = [results EXCEPT ![c] = r.val]
           /\ hist' = [hist EXCEPT ![c].fb = IF r.failed THEN "fail" ELSE "ok",
                                   ![c].fbVal = r.val]
    /\ pc' = [pc EXCEPT ![c] = "upsert"]
    /\ expiresAt' = [expiresAt EXCEPT ![c] = ExpiresAt(now)]
    /\ UNCHANGED <<now, cache, nextId, lastMod, query, maxResults, cached, ret,
                   extractVars>>

\* The provider never answers the pending request: fetch is called without
\* a signal or timeout, so nothing settles the awaited promise.
ProviderHangs(c) ==
    /\ pc[c] \in {"duckduckgo", "google"}
    /\ pc' = [pc EXCEPT ![c] = "hung"]
    /\ UNCHANGED <<now, cache, nextId, lastMod, query, maxResults, cached,
                   results, expiresAt, ret, hist, extractVars>>

\* upsert settles: the row of the key is replaced (its id is kept) or
\* created; a rejection is caught by cacheResults. search returns results.
Upsert(c, storeOk) ==
    /\ pc[c] = "upsert"
    /\ LET k == WriteKey(query[c])
       IN  IF storeOk
           THEN /\ cache' = [cache EXCEPT ![k] =
                                [id |-> IF cache[k] # NoRow THEN cache[k].id ELSE nextId,
                                 results |-> results[c],
                                 expiresAt |-> expiresAt[c]]]
                /\ nextId' = IF cache[k] # NoRow THEN nextId ELSE nextId + 1
                /\ lastMod' = [by |-> c, op |-> "upsert",
                               at |-> expiresAt[c] - cacheExpiry]
                /\ hist' = [hist EXCEPT ![c].wrote = TRUE]
           ELSE /\ hist' = [hist EXCEPT ![c].writeFail = TRUE]
                /\ UNCHANGED <<cache, nextId, lastMod>>
    /\ Return(c, [ok |-> TRUE, val |-> results[c]])
    /\ UNCHANGED <<now, query, maxResults, extractVars>>

\* Time passes.
Tick ==
    /\ now < MaxTicks * TickMs
    /\ now' = now + TickMs
    /\ UNCHANGED <<cache, nextId, lastMod, pc, query, maxResults, cached,
                   results, expiresAt, ret, hist, extractVars>>

Next ==
    \/ \E c \in Calls, q \in Queries, n \in 1..MaxResultsArg : Start(c, q, n)
    \/ \E c \in Calls, storeOk \in BOOLEAN : FindUnique(c, storeOk)
    \/ \E c \in Calls, storeOk \in BOOLEAN : Delete(c, storeOk)
    \/ \E c \in Calls, resp \in Responses : PrimaryRespond(c, resp)
    \/ \E c \in Calls, resp \in Responses : FallbackRespond(c, resp)
    \/ \E c \in Calls : ProviderHangs(c)
    \/ \E c \in Calls, storeOk \in BOOLEAN : Upsert(c, storeOk)
    \/ Tick

Spec == Init /\ [][Next]_vars

\* Every settled promise resumes its call: the event loop runs each
\* continuation that is ready. The store and a provider that answers do
\* settle; a provider that hangs settles nothing.
CallStep(c) ==
    \/ \E storeOk \in BOOLEAN : FindUnique(c, storeOk)
    \/ \E storeOk \in BOOLEAN : Delete(c, storeOk)
    \/ \E resp \in Responses : PrimaryRespond(c, resp)
    \/ \E resp \in Responses : FallbackRespond(c, resp)
    \/ \E storeOk \in BOOLEAN : Upsert(c, storeOk)

FairSpec ==
    Init /\ [][Next]_vars /\ \A c \in Calls : WF_vars(CallStep(c))

\* ------------------------------------------------------------- extraction
\* One provider page parsed on its own, for every page up to MaxBlocks.
ExtractInit ==
    /\ SearchInit
    /\ cache = [k \in KeySpace |-> NoRow]
    /\ xpc = "page"
    /\ xpage \in Pages
    /\ xmax \in 1..(MaxBlocks + 1)
    /\ xout = [ok |-> TRUE, val |-> <<>>]

ExtractDuckDuckGo ==
    /\ xpc = "page"
    /\ xpc' = "duckduckgo"
    /\ xout' = [ok |-> TRUE, val |-> ParseDuckDuckGo(xpage, xmax)]
    /\ UNCHANGED <<searchVars, xpage, xmax>>

ExtractGoogle ==
    /\ xpc = "page"
    /\ xpc' = "google"
    /\ xout' = ParseGoogle(xpage, xmax)
    /\ UNCHANGED <<searchVars, xpage, xmax>>

ExtractNext ==
    \/ ExtractDuckDuckGo
    \/ ExtractGoogle

ExtractSpec == ExtractInit /\ [][ExtractNext]_vars

\* ------------------------------------------------------------- properties
InFlight == {"duckduckgo", "google", "upsert", "hung"}

Min(a, b) == IF a <= b THEN a ELSE b

\* An absolute url starts with a scheme.
IsAbsolute(url) ==
    url # <<>> /\ Head(url) \in {"https:", "http:"}

AllAbsolute(list) ==
    \A i \in DOMAIN list : IsAbsolute(list[i].url)

RowWithId(id) ==
    { k \in KeySpace : cache[k] # NoRow /\ cache[k].id = id }

\* C1: a search call never rejects: whatever the providers and the store
\* do, a call that is done has resolved to a list, and when both providers
\* failed in the call the list is empty.
C1_NeverRejects ==
    \A c \in Calls :
        pc[c] = "done" =>
            /\ ret[c].ok
            /\ (hist[c].pFail /\ hist[c].fb = "fail") => ret[c].val = <<>>

\* A call in which the cache read, both providers and the cache write all
\* failed is done, with the empty list.
C1_Witness ==
    \E c \in Calls :
        /\ pc[c] = "done"
        /\ hist[c].pFail /\ hist[c].fb = "fail"
        /\ hist[c].readFail /\ hist[c].writeFail
        /\ ret[c] = [ok |-> TRUE, val |-> <<>>]

\* C2: when a call's cache read directly follows the applied upsert of an
\* earlier, finished call whose query is equal up to letter case, less
\* than the period after that call took the time of its write, and no store
\* operation of the later call fails, then the later call returns the row,
\* its result is the earlier call's result, and it issues no HTTP request:
\* the one fresh fetch of the two calls is the earlier call's.
C2_SecondCallServedFromCache ==
    \A b \in Calls :
        (pc[b] = "done" /\ hist[b].pred # 0 /\ ~hist[b].readFail /\ ~hist[b].writeFail) =>
            /\ hist[b].hit
            /\ hist[b].requests = 0
            /\ ret[b] = ret[hist[b].pred]
            /\ hist[hist[b].pred].requests >= 1

\* The second call has a query that differs in case from the first's and
\* is served a list that is not empty.
C2_Witness ==
    \E b \in Calls :
        /\ pc[b] = "done" /\ hist[b].pred # 0 /\ ~hist[b].readFail
        /\ query[b] # query[hist[b].pred]
        /\ hist[b].hit
        /\ ret[b].val # <<>>

\* C3 as stated: no call returns a row that has expired; a call that reads
\* when the table holds an expired row for its key has deleted the row once
\* the read is over, and then makes exactly one fresh fetch (one request to
\* DuckDuckGo, and one to Google only when DuckDuckGo failed).
C3_AsStated ==
    \A c \in Calls :
        /\ ~hist[c].hitExpired
        /\ (hist[c].staleId # 0 /\ pc[c] \in InFlight) => RowWithId(hist[c].staleId) = {}
        /\ (hist[c].staleId # 0 /\ pc[c] \in InFlight \cup {"done"}) =>
               /\ ~hist[c].hit
               /\ hist[c].requests \in {1, 2}
               /\ (hist[c].requests = 2) = hist[c].pFail

\* C3 amended: the same, the row being deleted unless the store rejected
\* the findUnique or the delete of the read.
C3_ExpiredNeverReturned ==
    \A c \in Calls :
        /\ ~hist[c].hitExpired
        /\ (hist[c].staleId # 0 /\ pc[c] \in InFlight /\ ~hist[c].readFail) =>
               RowWithId(hist[c].staleId) = {}
        /\ (hist[c].staleId # 0 /\ pc[c] \in InFlight \cup {"done"}) =>
               /\ ~hist[c].hit
               /\ hist[c].requests \in {1, 2}
               /\ (hist[c].requests = 2) = hist[c].pFail

\* A call read, exactly at its expiry, a row that a call had created at
\* time 0, deleted it, made one fresh fetch and wrote the row anew.
C3_Witness ==
    \E c \in Calls :
        /\ pc[c] = "done"
        /\ hist[c].staleId >= 2 /\ ~hist[c].readFail
        /\ hist[c].requests = 1
        /\ hist[c].wrote
        /\ lastMod = [by |-> c, op |-> "upsert", at |-> cacheExpiry]

\* C4: a call in which both providers failed writes no row.
C4_NoWriteOnTotalFailure ==
    \A c \in Calls :
        hist[c].wrote => ~(hist[c].pFail /\ hist[c].fb = "fail")

\* C5: a provider's extraction returns the first maxResults qualifying
\* blocks of the page, in document order.
C5_FirstQualifyingBlocks ==
    (xpc \in {"duckduckgo", "google"} /\ xout.ok) =>
        LET good == SelectSeq(xpage, Qualifies)
            n == Min(xmax, Len(good))
        IN  /\ Len(xout.val) = n
            /\ \A i \in 1..n :
                  /\ xout.val[i].title = Trim(good[i].title)
                  /\ xout.val[i].snippet = Trim(good[i].snippet)

\* C6: a call that missed the cache, in which DuckDuckGo failed and Google
\* succeeded, called fallbackSearch with its own query and maxResults and
\* resolves to exactly the list fallbackSearch returned, every entry of it
\* tagged Google.
C6_FallbackResults ==
    \A c \in Calls :
        (pc[c] = "done" /\ hist[c].pFail /\ hist[c].fb = "ok") =>
            /\ ret[c].ok
            /\ ret[c].val = hist[c].fbVal
            /\ \A i \in DOMAIN ret[c].val : ret[c].val[i].source = "Google"
            /\ hist[c].fbArgs = [query |-> query[c], maxResults |-> maxResults[c]]
            /\ hist[c].requests = 2

\* DuckDuckGo failed, Google answered a page with results, and the call
\* returned them.
C6_Witness ==
    \E c \in Calls :
        /\ pc[c] = "done" /\ hist[c].pFail /\ hist[c].fb = "ok"
        /\ ret[c].val # <<>>
        /\ ret[c].val[1].source = "Google"

\* C7: every url returned by search or stored in the table is absolute.
C7_UrlsAbsolute ==
    /\ \A k \in KeySpace : AllAbsolute(cache[k].results)
    /\ \A c \in Calls : pc[c] = "done" => AllAbsolute(ret[c].val)

\* C8: no step removes a row that has not expired.
C8_OnlyExpiredRemoved ==
    [][\A k \in KeySpace :
          (cache[k] # NoRow /\ cache'[k] = NoRow) => cache[k].expiresAt <= now]_vars

\* C9: every search call that was made eventually returns.
C9_EveryCallReturns ==
    \A c \in Calls : (pc[c] = "findUnique") ~> (pc[c] = "done")

\* C10: the key a call reads and writes is its query trimmed and
\* lower-cased, so every row of the table has a trimmed key.
C10_KeyTrimmedLowerCased ==
    /\ \A c \in Calls :
          pc[c] # "idle" =>
              /\ ReadKey(query[c]) = Trim(ToLowerCase(query[c]))
              /\ WriteKey(query[c]) = Trim(ToLowerCase(query[c]))
    /\ \A k \in KeySpace : cache[k] # NoRow => k = Trim(k)

====
